---- MODULE Spec2Model ----
(***************************************************************************)
(* Model of TransitApiTool.execute (src/src/tools/TransitTool.ts).         *)
(*                                                                         *)
(* execute posts one directions request, awaits the answer and turns it    *)
(* into a text result.  The model keeps the position of one call (pc), the *)
(* settled outcome of the upstream call (response) and what execute        *)
(* produced (result).                                                      *)
(*                                                                         *)
(* JavaScript values are tagged records; a text is a sequence of tokens    *)
(* whose concatenation is the JavaScript string, the line break being a    *)
(* token of its own.  The Korean literals of the source are written with   *)
(* ASCII stand-ins (the module's strings are ASCII); each definition names *)
(* the literal it stands for.                                              *)
(***************************************************************************)
EXTENDS Integers, Sequences, FiniteSets, TLC

VARIABLES pc, response, result

vars == <<pc, response, result>>

\* ------------------------------------------------------------------------
\* Bounds of the model
\* ------------------------------------------------------------------------
MaxLegs == 2
MaxStations == 2
MaxSteps == 2

\* ------------------------------------------------------------------------
\* JavaScript values
\* ------------------------------------------------------------------------
Undef == [t |-> "undefined"]
Null == [t |-> "null"]
Num(n) == [t |-> "number", n |-> n]
Str(s) == [t |-> "string", s |-> s]
Arr(a) == [t |-> "array", a |-> a]

\* new Error(m) as thrown by axios or by the engine (a TypeError)
Err(m) == [t |-> "error", message |-> m]

Nullish(v) == v = Undef \/ v = Null

\* the truthiness test behind `x ? a : b`, `if (x)`, `x || y`, `!x`
Truthy(v) == v \notin {Undef, Null, Num(0), Str("")}

\* ${v} in a template literal, for the value shapes the model holds
ToStr(v) ==
  IF v = Undef THEN "undefined"
  ELSE IF v = Null THEN "null"
  ELSE IF v.t = "number" THEN ToString(v.n)
  ELSE IF v.t = "string" THEN v.s
  ELSE "[object Object]"

\* a string as tokens: the empty string contributes nothing to the text
Tok(s) == IF s = "" THEN <<>> ELSE <<s>>

\* ------------------------------------------------------------------------
\* Literals of the source
\* ------------------------------------------------------------------------
NL == "\n"
\* '경로를 찾을 수 없습니다.'
NotFoundSentence == "No route found."
\* '대중교통 경로 조회 실패: '
FailurePrefix == "transit route lookup failed: "
\* '도보'
WalkToken == "walk"
\* ' → '
Arrow == " -> "
\* '경로 요약: '
SummaryPrefix == "route summary: "
\* '소요 시간: 약 '
DurationPrefix == "duration: about "
\* '분'
MinSuffix == "min"
\* '환승: '
TransferPrefix == "transfers: "
\* '회'
TransferSuffix == "x"
\* '요금: '
FarePrefix == "fare: "
\* '원'
FareSuffix == "won"
\* '총 거리: '
DistancePrefix == "total distance: "
\* '총 도보 거리: '
WalkDistancePrefix == "total walk distance: "
\* '총 도보 시간: 약 '
WalkTimePrefix == "total walk time: about "
\* '[상세 경유지]'
DetailHeader == "[details]"
\* 'm, 약 '
MetersAbout == "m, about "
\* '    - 출발: '
DepartPrefix == "    - depart: "
\* '    - 도착: '
ArrivePrefix == "    - arrive: "
\* '    ·' of '    · '
StepBullet == "    ."
\* '    - 승차: '
BoardPrefix == "    - board: "
\* '    - 하차: '
AlightPrefix == "    - alight: "
\* '    - 노선: '
LaneRoutePrefix == "    - line: "
\* '    - 노선타입: '
LaneTypePrefix == "    - line type: "
\* '    - 운행여부: '
ServicePrefix == "    - service: "
\* '운행중'
Operating == "operating"
\* '운행종료'
Ended == "ended"
\* '    - 경유지: '
PassedPrefix == "    - via: "

\* ------------------------------------------------------------------------
\* String helpers of the runtime, on token sequences
\* ------------------------------------------------------------------------
Whitespace == {" ", NL}

RECURSIVE TrimEnd(_)
TrimEnd(s) ==
  IF s = <<>> THEN <<>>
  ELSE IF s[Len(s)] \in Whitespace THEN TrimEnd(SubSeq(s, 1, Len(s) - 1))
  ELSE s

RECURSIVE TrimStart(_)
TrimStart(s) ==
  IF s = <<>> THEN <<>>
  ELSE IF s[1] \in Whitespace THEN TrimStart(Tail(s))
  ELSE s

\* String.prototype.trim
Trim(s) == TrimStart(TrimEnd(s))

\* Array.prototype.join on already rendered elements
RECURSIVE Join(_, _)
Join(parts, sep) ==
  IF parts = <<>> THEN <<>>
  ELSE IF Len(parts) = 1 THEN parts[1]
  ELSE parts[1] \o sep \o Join(Tail(parts), sep)

\* join renders an undefined or null element as the empty string
JoinElem(v) == IF Nullish(v) THEN <<>> ELSE Tok(ToStr(v))

\* Math.round(x / 60) for a non-negative integer x
RoundMin(x) == (x + 30) \div 60

\* (d / 1000).toFixed(1) for a non-negative integer d (exact away from the
\* decimal half-way points, where the binary value of d / 1000 decides)
ToFixed1(d) ==
  LET tenths == (d + 50) \div 100
  IN ToString(tenths \div 10) \o "." \o ToString(tenths % 10)

\* ------------------------------------------------------------------------
\* execute, after the await: extraction (lines 84-116)
\* ------------------------------------------------------------------------

\* response.data?.metaData?.plan
Plan(data) ==
  IF Nullish(data) THEN Undef
  ELSE IF Nullish(data.metaData) THEN Undef
  ELSE data.metaData.plan

NoRouteNoLengthTest(plan) ==
  ~Truthy(plan) \/ ~Truthy(plan.itineraries)

\* !plan || !plan.itineraries || plan.itineraries.length === 0
NoRoute(plan) ==
  \/ ~Truthy(plan)
  \/ ~Truthy(plan.itineraries)
  \/ Len(plan.itineraries.a) = 0

\* an index past the end of an array reads undefined
At(arr, i) == IF i \in 1..Len(arr.a) THEN arr.a[i] ELSE Undef

\* plan.itineraries[0]
Best(plan) == At(plan.itineraries, 1)

\* best.totalTime ? Math.round(best.totalTime / 60) : undefined
DurationMin(best) ==
  IF Truthy(best.totalTime) THEN Num(RoundMin(best.totalTime.n)) ELSE Undef

\* best.transferCount ?? 0
Transfers(best) ==
  IF Nullish(best.transferCount) THEN Num(0) ELSE best.transferCount

\* best.totalDistance ? (best.totalDistance / 1000).toFixed(1) : undefined
DistanceKm(best) ==
  IF Truthy(best.totalDistance) THEN Str(ToFixed1(best.totalDistance.n))
  ELSE Undef

\* best.totalWalkDistance ?? 0
WalkDistance(best) ==
  IF Nullish(best.totalWalkDistance) THEN Num(0) ELSE best.totalWalkDistance

\* best.totalWalkTime ? Math.round(best.totalWalkTime / 60) : undefined
WalkTimeMin(best) ==
  IF Truthy(best.totalWalkTime) THEN Num(RoundMin(best.totalWalkTime.n))
  ELSE Undef

\* best.fare?.regular?.totalFare ?? 0
Fare(best) ==
  LET f == IF Nullish(best.fare) THEN Undef
           ELSE IF Nullish(best.fare.regular) THEN Undef
           ELSE best.fare.regular.totalFare
  IN IF Nullish(f) THEN Num(0) ELSE f

\* best.legs || []
Legs(best) == IF Truthy(best.legs) THEN best.legs.a ELSE <<>>

\* ------------------------------------------------------------------------
\* execute: the route summary line (lines 117-123)
\* ------------------------------------------------------------------------
StopLabelRouteFirst(leg) ==
  IF Truthy(leg.route) THEN leg.route
  ELSE IF leg.mode = Str("WALK") THEN Str(WalkToken)
  ELSE leg.mode

\* the callback of legs.map(...) that builds stops
StopLabel(leg) ==
  IF leg.mode = Str("WALK") THEN Str(WalkToken)
  ELSE IF Truthy(leg.route) THEN leg.route
  ELSE leg.mode

\* legs.map(...).join(' → ')
Stops(legs) ==
  Join([i \in 1..Len(legs) |-> JoinElem(StopLabel(legs[i]))], <<Arrow>>)

\* ------------------------------------------------------------------------
\* execute: the detail entry of one leg (lines 126-191)
\* ------------------------------------------------------------------------

\* `[${idx + 1}] `, idx counting from 0
Marker(idx) == "[" \o ToString(idx + 1) \o "] "

\* leg.start?.name ? leg.start.name : ''   (and the same for leg.end)
PlaceName(place) ==
  IF Nullish(place) THEN ""
  ELSE IF Truthy(place.name) THEN ToStr(place.name)
  ELSE ""

\* Math.round((leg.sectionTime || 0) / 60)
SectionMin(leg) ==
  RoundMin(IF Truthy(leg.sectionTime) THEN leg.sectionTime.n ELSE 0)

\* Array.isArray
IsArray(v) == v.t = "array"

\* `    · ${step.description || ''}`
StepLine(step) ==
  <<StepBullet, " ">>
    \o Tok(IF Truthy(step.description) THEN ToStr(step.description) ELSE "")

\* the walk steps block (lines 139-147)
StepsBlock(leg) ==
  IF Truthy(leg.steps) /\ IsArray(leg.steps)
  THEN Join([i \in 1..Len(leg.steps.a) |-> StepLine(leg.steps.a[i])], <<NL>>)
         \o <<NL>>
  ELSE <<>>

\* the WALK branch (lines 132-147)
WalkDesc(leg, idx) ==
  <<Marker(idx), WalkToken, " (">> \o Tok(ToStr(leg.distance))
    \o <<MetersAbout, ToString(SectionMin(leg)), MinSuffix, ")", NL>>
    \o (IF PlaceName(leg.start) # ""
        THEN <<DepartPrefix, PlaceName(leg.start), NL>> ELSE <<>>)
    \o (IF PlaceName(leg.end) # ""
        THEN <<ArrivePrefix, PlaceName(leg.end), NL>> ELSE <<>>)
    \o StepsBlock(leg)

ServiceTextSwapped(service) == IF service = Num(1) THEN Ended ELSE Operating

\* lane.service === 1 ? '운행중' : '운행종료'
ServiceText(service) == IF service = Num(1) THEN Operating ELSE Ended

\* the lane block (lines 158-172)
LaneBlock(leg) ==
  IF Truthy(leg.Lane) /\ IsArray(leg.Lane) /\ Len(leg.Lane.a) > 0
  THEN LET lane == leg.Lane.a[1]
       IN (IF Truthy(lane.route)
           THEN <<LaneRoutePrefix, ToStr(lane.route), NL>> ELSE <<>>)
          \o (IF Truthy(lane.type)
              THEN <<LaneTypePrefix, ToStr(lane.type), NL>> ELSE <<>>)
          \o (IF lane.service # Undef
              THEN <<ServicePrefix, ServiceText(lane.service), NL>>
              ELSE <<>>)
  ELSE <<>>

RECURSIVE FilterTruthy(_)
\* .filter(Boolean)
FilterTruthy(vs) ==
  IF vs = <<>> THEN <<>>
  ELSE (IF Truthy(vs[1]) THEN <<vs[1]>> ELSE <<>>) \o FilterTruthy(Tail(vs))

StationNamesUnfiltered(stationList) ==
  [i \in 1..Len(stationList.a) |-> stationList.a[i].stationName]

\* stationList.map((station) => station.stationName).filter(Boolean)
StationNames(stationList) ==
  FilterTruthy([i \in 1..Len(stationList.a) |-> stationList.a[i].stationName])

\* the passed-stations block (lines 173-187)
PassedBlock(leg) ==
  IF /\ Truthy(leg.passStopList)
     /\ Truthy(leg.passStopList.stationList)
     /\ IsArray(leg.passStopList.stationList)
  THEN LET stations == StationNames(leg.passStopList.stationList)
       IN IF Len(stations) > 0
          THEN <<PassedPrefix>>
                 \o Join([i \in 1..Len(stations) |-> JoinElem(stations[i])],
                         <<Arrow>>)
                 \o <<NL>>
          ELSE <<>>
  ELSE <<>>

\* the transit branch (lines 148-188)
TransitDesc(leg, idx) ==
  <<Marker(idx)>> \o Tok(ToStr(leg.mode))
    \o (IF Truthy(leg.route) THEN <<"(", ToStr(leg.route), ")">> ELSE <<>>)
    \o <<" - ">> \o Tok(ToStr(leg.distance))
    \o <<MetersAbout, ToString(SectionMin(leg)), MinSuffix, NL>>
    \o (IF PlaceName(leg.start) # ""
        THEN <<BoardPrefix, PlaceName(leg.start), NL>> ELSE <<>>)
    \o (IF PlaceName(leg.end) # ""
        THEN <<AlightPrefix, PlaceName(leg.end), NL>> ELSE <<>>)
    \o LaneBlock(leg)
    \o PassedBlock(leg)

\* the callback of legs.map(...) that builds legsDetail
LegDesc(leg, idx) ==
  Trim(IF leg.mode = Str("WALK") THEN WalkDesc(leg, idx)
       ELSE TransitDesc(leg, idx))

LegsDetailFromZero(legs) ==
  Join([i \in 1..Len(legs) |-> LegDesc(legs[i], i - 2)], <<NL, NL>>)

\* legs.map(...).join('\n\n')
LegsDetail(legs) ==
  Join([i \in 1..Len(legs) |-> LegDesc(legs[i], i - 1)], <<NL, NL>>)

\* ------------------------------------------------------------------------
\* execute: the three results (lines 86-93, 193-214, 221-228)
\* ------------------------------------------------------------------------
Return(text) == [kind |-> "return", text |-> text]
Throw(error) == [kind |-> "throw", error |-> error]

\* the text of the not-found result
NotFoundText == <<NotFoundSentence>>

\* the text of the route report
ReportText(best) ==
  <<SummaryPrefix>> \o Stops(Legs(best)) \o <<NL>>
    \o (IF DurationMin(best) # Undef
        THEN <<DurationPrefix, ToStr(DurationMin(best)), MinSuffix, NL>>
        ELSE <<>>)
    \o <<TransferPrefix, ToStr(Transfers(best)), TransferSuffix, NL>>
    \o (IF Truthy(Fare(best))
        THEN <<FarePrefix, ToStr(Fare(best)), FareSuffix, NL>> ELSE <<>>)
    \o (IF Truthy(DistanceKm(best))
        THEN <<DistancePrefix, ToStr(DistanceKm(best)), "km", NL>> ELSE <<>>)
    \o (IF Truthy(WalkDistance(best))
        THEN <<WalkDistancePrefix, ToStr(WalkDistance(best)), "m", NL>>
        ELSE <<>>)
    \o (IF WalkTimeMin(best) # Undef
        THEN <<WalkTimePrefix, ToStr(WalkTimeMin(best)), MinSuffix, NL>>
        ELSE <<>>)
    \o <<NL, DetailHeader, NL>> \o LegsDetail(Legs(best))

\* reading a property of undefined or null throws a TypeError (V8's wording)
PropertyOfNullish(v, prop) ==
  Err("Cannot read properties of " \o ToStr(v) \o " (reading '" \o prop
        \o "')")

\* the try block after the await (lines 84-214)
TryBody(data) ==
  LET plan == Plan(data) IN
  IF NoRoute(plan) THEN Return(NotFoundText)
  ELSE LET best == Best(plan) IN
       IF Nullish(best) THEN Throw(PropertyOfNullish(best, "totalTime"))
       ELSE LET legs == Legs(best) IN
            IF \E i \in 1..Len(legs) : Nullish(legs[i])
            THEN Throw(PropertyOfNullish(
                   legs[CHOOSE i \in 1..Len(legs) :
                          /\ Nullish(legs[i])
                          /\ \A j \in 1..(i - 1) : ~Nullish(legs[j])],
                   "mode"))
            ELSE Return(ReportText(best))

\* error.message of the caught value
MessageOf(error) ==
  IF error.t = "error" THEN Str(error.message) ELSE Undef

CatchNoMessage(error) ==
  IF Nullish(error) THEN Throw(PropertyOfNullish(error, "message"))
  ELSE Return(<<FailurePrefix>>)

\* the catch block (lines 215-229)
Catch(error) ==
  IF Nullish(error) THEN Throw(PropertyOfNullish(error, "message"))
  ELSE Return(<<FailurePrefix>> \o Tok(ToStr(MessageOf(error))))

\* the continuation of execute once the upstream call has resolved
OnResolved(data) ==
  LET r == TryBody(data)
  IN IF r.kind = "throw" THEN Catch(r.error) ELSE r

\* ------------------------------------------------------------------------
\* The upstream outcomes the model draws from
\* ------------------------------------------------------------------------
Place(name) == [t |-> "object", name |-> name]
Step(description) == [t |-> "object", description |-> description]
Station(stationName) == [t |-> "object", stationName |-> stationName]
LaneObj(route, type, service) ==
  [t |-> "object", route |-> route, type |-> type, service |-> service]
PassStopList(stationList) == [t |-> "object", stationList |-> stationList]
LegObj(mode, route, distance, sectionTime, start, end, steps, Lane, pass) ==
  [t |-> "object", mode |-> mode, route |-> route, distance |-> distance,
   sectionTime |-> sectionTime, start |-> start, end |-> end,
   steps |-> steps, Lane |-> Lane, passStopList |-> pass]
FareObj(regular) == [t |-> "object", regular |-> regular]
Regular(totalFare) == [t |-> "object", totalFare |-> totalFare]
Itin(time, transfers, distance, walkDistance, walkTime, fare, legs) ==
  [t |-> "object", totalTime |-> time, transferCount |-> transfers,
   totalDistance |-> distance, totalWalkDistance |-> walkDistance,
   totalWalkTime |-> walkTime, fare |-> fare, legs |-> legs]
PlanObj(itineraries) == [t |-> "object", itineraries |-> itineraries]
MetaData(plan) == [t |-> "object", plan |-> plan]
Data(metaData) == [t |-> "object", metaData |-> metaData]

\* sequences over S of length 0..n
SeqsUpTo(S, n) == UNION {[1..k -> S] : k \in 0..n}

WalkLeg ==
  LegObj(Str("WALK"), Undef, Num(300), Num(240), Place(Str("A")),
         Place(Str("B")), Undef, Undef, Undef)
BusLeg ==
  LegObj(Str("BUS"), Str("146"), Num(5000), Num(900), Place(Str("B")),
         Place(Str("C")), Undef, Undef,
         PassStopList(Arr(<<Station(Str("C1")), Station(Str("C2"))>>)))
SubwayLeg ==
  LegObj(Str("SUBWAY"), Undef, Num(7000), Num(620), Place(Str("C")),
         Place(Str("D")), Undef,
         Arr(<<LaneObj(Str("2"), Num(2), Num(1))>>), Undef)
CoreLegs == {WalkLeg, BusLeg, SubwayLeg}

ModeValues == {Undef, Str("WALK"), Str("BUS")}
RouteValues == {Undef, Str(""), Str("146")}

LaneObjs ==
  {LaneObj(r, ty, sv) :
     r \in {Undef, Str("146")}, ty \in {Undef, Num(11)},
     sv \in {Undef, Null, Num(0), Num(1), Num(2)}}
LaneValues ==
  {Undef, Arr(<<>>), Arr(<<LaneObj(Str("9"), Undef, Num(0)),
                          LaneObj(Str("146"), Num(11), Num(1))>>)}
    \cup {Arr(<<l>>) : l \in LaneObjs}

StationObjs == {Station(n) : n \in {Undef, Str(""), Str("C1"), Str("C2")}}
PassValues ==
  {Undef, PassStopList(Undef)}
    \cup {PassStopList(Arr(ss)) : ss \in SeqsUpTo(StationObjs, MaxStations)}

StepObjs == {Step(d) : d \in {Undef, Str(""), Str("go")}}
StepsValues == {Undef} \cup {Arr(ss) : ss \in SeqsUpTo(StepObjs, MaxSteps)}

\* legs that vary the header fields
HeaderLegs ==
  {LegObj(m, r, d, st, s, e, Undef, Undef, Undef) :
     m \in ModeValues, r \in RouteValues, d \in {Undef, Num(300)},
     st \in {Undef, Num(240)},
     s \in {Undef, Place(Undef), Place(Str("A"))},
     e \in {Undef, Place(Str("B"))}}
\* legs that vary the lane
LaneLegs ==
  {LegObj(m, r, Num(300), Num(240), Undef, Undef, Undef, l, p) :
     m \in {Str("WALK"), Str("BUS")}, r \in {Undef, Str("146")},
     l \in LaneValues,
     p \in {Undef, PassStopList(Arr(<<Station(Str("C1"))>>))}}
\* legs that vary the passed stations
PassLegs ==
  {LegObj(m, Undef, Num(300), Num(240), Undef, Undef, Undef, Undef, p) :
     m \in {Str("WALK"), Str("BUS")}, p \in PassValues}
\* legs that vary the walk steps
StepLegs ==
  {LegObj(m, Undef, Num(300), Num(240), Undef, Place(Str("B")), ss, Undef,
          Undef) :
     m \in {Str("WALK"), Str("BUS")}, ss \in StepsValues}

\* a leg slot of the array may also hold null
VariedLegs == HeaderLegs \cup LaneLegs \cup PassLegs \cup StepLegs \cup {Null}

\* leg lists of 1..MaxLegs legs: one leg varies, the others are core legs
LegLists ==
  {[i \in 1..n[1] |-> IF i = n[2] THEN v ELSE f[i]] :
     n \in {<<k, q>> \in (1..MaxLegs) \X (1..MaxLegs) : q <= k},
     v \in VariedLegs, f \in [1..MaxLegs -> CoreLegs]}

LegsValues == {Undef, Arr(<<>>)} \cup {Arr(ls) : ls \in LegLists}

FareValues ==
  {Undef, FareObj(Undef), FareObj(Regular(Num(0))),
   FareObj(Regular(Num(1500)))}

ScenarioLegs == Arr(<<WalkLeg, BusLeg>>)

\* itineraries that vary the scalar fields
MetricItins ==
  {Itin(tt, tc, td, twd, twt, f, ScenarioLegs) :
     tt \in {Undef, Num(0), Num(20), Num(125)},
     tc \in {Undef, Null, Num(1)},
     td \in {Undef, Num(0), Num(40), Num(1050)},
     twd \in {Undef, Num(0), Num(300)},
     twt \in {Undef, Num(0), Num(240)},
     f \in FareValues}
\* itineraries that vary the legs
LegItins ==
  {Itin(Num(1140), Num(1), Num(5300), Num(300), Num(240),
        FareObj(Regular(Num(1500))), ls) : ls \in LegsValues}

OtherItin ==
  Itin(Num(600), Undef, Undef, Undef, Undef, Undef, Arr(<<SubwayLeg>>))

\* the itinerary lists: one itinerary (or null), or two of which the second
\* is OtherItin
ItineraryLists ==
  {<<it>> : it \in MetricItins \cup LegItins \cup {Null}}
    \cup {<<it, OtherItin>> : it \in LegItins}

\* response.data
Responses ==
  {Undef, Data(Undef), Data(Null), Data(MetaData(Undef)),
   Data(MetaData(PlanObj(Undef))), Data(MetaData(PlanObj(Arr(<<>>))))}
    \cup {Data(MetaData(PlanObj(Arr(its)))) : its \in ItineraryLists}

\* what the awaited call can be rejected with
Rejections ==
  {Err(m) : m \in {"timeout", "timeout of 10000ms exceeded",
                   "Network Error", "Request failed with status code 401"}}
    \cup {Str("boom"), Undef, Null}

\* ------------------------------------------------------------------------
\* The state machine of one tool instance
\* ------------------------------------------------------------------------
None == [kind |-> "none"]

Init ==
  /\ pc = "idle"
  /\ response = None
  /\ result = None

\* execute is called and suspends at the await (lines 50-81)
Execute ==
  /\ pc \in {"idle", "done"}
  /\ pc' = "awaiting"
  /\ response' = None
  /\ result' = None

\* the upstream call resolves; the try block runs to its return (82-214)
\* or throws into the catch block (215-229)
AxiosResolves ==
  /\ pc = "awaiting"
  /\ \E data \in Responses :
       /\ response' = [kind |-> "resolved", data |-> data]
       /\ result' = OnResolved(data)
  /\ pc' = "done"

\* the upstream call is rejected; the catch block runs (215-229)
AxiosRejects ==
  /\ pc = "awaiting"
  /\ \E error \in Rejections :
       /\ response' = [kind |-> "rejected", error |-> error]
       /\ result' = Catch(error)
  /\ pc' = "done"

Next == Execute \/ AxiosResolves \/ AxiosRejects

Spec == Init /\ [][Next]_vars

\* ------------------------------------------------------------------------
\* Reading a call: its upstream outcome and the text it returned
\* ------------------------------------------------------------------------
Done == pc = "done"
Resolved == Done /\ response.kind = "resolved"
Rejected == Done /\ response.kind = "rejected"

\* metaData, plan or itineraries is missing, or itineraries is an empty list
MissingOrEmpty ==
  /\ Resolved
  /\ \/ Nullish(response.data)
     \/ Nullish(response.data.metaData)
     \/ Nullish(response.data.metaData.plan)
     \/ Nullish(response.data.metaData.plan.itineraries)
     \/ response.data.metaData.plan.itineraries = Arr(<<>>)

\* the response holds a list of at least one itinerary
HasItinerary == Resolved /\ ~MissingOrEmpty

\* the first itinerary of the response
FirstItin == response.data.metaData.plan.itineraries.a[1]

\* the legs of the first itinerary (none when the field is missing)
InLegs ==
  IF FirstItin.legs = Undef THEN <<>> ELSE FirstItin.legs.a

\* the first itinerary is an object whose legs are all objects
WellShaped ==
  /\ HasItinerary
  /\ ~Nullish(FirstItin)
  /\ \A k \in 1..Len(InLegs) : ~Nullish(InLegs[k])

IsNotFound == Done /\ result = [kind |-> "return", text |-> <<NotFoundSentence>>]
IsFailure ==
  /\ Done /\ result.kind = "return"
  /\ Len(result.text) \in {1, 2}
  /\ result.text[1] = FailurePrefix
IsReport ==
  /\ Done /\ result.kind = "return"
  /\ result.text # <<>>
  /\ result.text[1] = SummaryPrefix

\* the first position of x in s, 0 when there is none
IndexOf(s, x) ==
  IF \E i \in 1..Len(s) : s[i] = x
  THEN CHOOSE i \in 1..Len(s) : s[i] = x /\ \A j \in 1..(i - 1) : s[j] # x
  ELSE 0

\* s cut at every occurrence of x
RECURSIVE SplitOn(_, _)
SplitOn(s, x) ==
  LET i == IndexOf(s, x)
  IN IF i = 0 THEN <<s>>
     ELSE <<SubSeq(s, 1, i - 1)>> \o SplitOn(SubSeq(s, i + 1, Len(s)), x)

\* the lines of the returned text
ReportLines == SplitOn(result.text, NL)
\* the lines of the metrics block: from the second line to the blank line
MetricLines ==
  LET lines == ReportLines
  IN SubSeq(lines, 2, IndexOf(lines, <<>>) - 1)
\* the lines after the detail header
DetailLines ==
  LET lines == ReportLines
  IN SubSeq(lines, IndexOf(lines, <<>>) + 2, Len(lines))
\* the labels of the summary line, cut at the arrows
Labels == SplitOn(Tail(SplitOn(result.text, NL)[1]), Arrow)
\* the detail entries, each a sequence of lines, cut at the blank lines
Entries ==
  LET detail == DetailLines
  IN IF detail = <<<<>>>> THEN <<>> ELSE SplitOn(detail, <<>>)

\* ------------------------------------------------------------------------
\* Claims
\* ------------------------------------------------------------------------

\* C1: when metaData, plan or itineraries is missing from the upstream
\* response, or itineraries is an empty list, execute returns the fixed
\* not-found sentence and nothing else, on every such call.
C1_NotFoundWhenNoItinerary ==
  MissingOrEmpty =>
    result = [kind |-> "return", text |-> <<NotFoundSentence>>]

C1_Witness ==
  /\ Resolved
  /\ ~Nullish(response.data)
  /\ ~Nullish(response.data.metaData)
  /\ ~Nullish(response.data.metaData.plan)
  /\ response.data.metaData.plan.itineraries = Arr(<<>>)
  /\ result.text = <<NotFoundSentence>>

\* C2: when the first itinerary has a missing or empty legs sequence,
\* execute returns the not-found result and never a route report with zero
\* legs.
C2_EmptyLegsRejected ==
  (/\ HasItinerary
   /\ ~Nullish(FirstItin)
   /\ FirstItin.legs \in {Undef, Arr(<<>>)})
    => (IsNotFound /\ ~IsReport)

\* C3: when the upstream call fails with an error whose message is m,
\* execute returns (does not throw) a text of exactly one line: the failure
\* prefix followed by m and nothing more.
C3_FailureLine ==
  (Rejected /\ response.error.t = "error") =>
    /\ result.kind = "return"
    /\ result.text = <<FailurePrefix, response.error.message>>
    /\ \A i \in 1..Len(result.text) : result.text[i] # NL

C3_Witness ==
  /\ Rejected
  /\ response.error = Err("timeout")
  /\ result.kind = "return"
  /\ result.text = <<FailurePrefix, "timeout">>

\* C4: every call of execute, whatever the upstream call threw or returned,
\* ends by returning the not-found sentence, the failure line or the route
\* report; no exception leaves execute.
C4_AlwaysReturnsText ==
  Done =>
    /\ result.kind = "return"
    /\ IsNotFound \/ IsFailure \/ IsReport

\* the tokens of the summary line and of the detail entries
LegTokens ==
  LET detail == DetailLines
  IN Tail(ReportLines[1])
       \o Join([i \in 1..Len(detail) |-> detail[i]], <<>>)

\* C5: for an itinerary with at least one leg whose legs may lack fields,
\* nothing is thrown, the report holds one numbered entry per leg, and no
\* placeholder such as the literal 'undefined' stands for a missing field in
\* the summary line or in the detail entries.
C5_MissingFieldRenderedAbsent ==
  (WellShaped /\ Len(InLegs) >= 1) =>
    /\ IsReport
    /\ Len(Entries) = Len(InLegs)
    /\ LET tokens == LegTokens
       IN \A i \in 1..Len(tokens) : tokens[i] # "undefined"

\* the field is supplied by the source
Supplied(v) == ~Nullish(v)
\* the value is supplied and is not zero
Nonzero(v) == ~Nullish(v) /\ v # Num(0)
\* fare.regular.totalFare of the first itinerary, undefined when missing
InFare ==
  IF Nullish(FirstItin.fare) THEN Undef
  ELSE IF Nullish(FirstItin.fare.regular) THEN Undef
  ELSE FirstItin.fare.regular.totalFare

\* C6: the metrics block lists duration, transfer count, fare, total
\* distance, total walk distance and total walk time in this order; the
\* transfer line is always there (0 when omitted), the fare and walk-distance
\* lines exactly when their value is nonzero, and the duration,
\* total-distance and walk-time lines exactly when the source supplies the
\* field.
C6_MetricsBlock ==
  IsReport =>
    LET expected ==
          (IF Supplied(FirstItin.totalTime) THEN <<DurationPrefix>> ELSE <<>>)
            \o <<TransferPrefix>>
            \o (IF Nonzero(InFare) THEN <<FarePrefix>> ELSE <<>>)
            \o (IF Supplied(FirstItin.totalDistance)
                THEN <<DistancePrefix>> ELSE <<>>)
            \o (IF Nonzero(FirstItin.totalWalkDistance)
                THEN <<WalkDistancePrefix>> ELSE <<>>)
            \o (IF Supplied(FirstItin.totalWalkTime)
                THEN <<WalkTimePrefix>> ELSE <<>>)
        metrics == MetricLines
    IN /\ [i \in 1..Len(metrics) |-> metrics[i][1]] = expected
       /\ \A i \in 1..Len(metrics) :
            (metrics[i][1] = TransferPrefix
               /\ Nullish(FirstItin.transferCount))
              => metrics[i] = <<TransferPrefix, "0", TransferSuffix>>

IsWalk(leg) == leg.mode = Str("WALK")

\* the line holds a parenthetical around a single label
HasRouteParenthetical(line) ==
  \E i \in 1..(Len(line) - 2) : line[i] = "(" /\ line[i + 2] = ")"

\* the entry holds a line that starts with the prefix
HasLine(entry, prefix) ==
  \E i \in 1..Len(entry) : entry[i] # <<>> /\ entry[i][1] = prefix

\* C7: a WALK leg, whatever route, Lane or passStopList it carries, has a
\* detail entry without route parenthetical, lane route/type/status lines
\* and passed-stations line, and its summary label is the walk token.
C7_WalkLegPlain ==
  IsReport =>
    LET legs == InLegs
        entries == Entries
        labels == Labels
    IN \A k \in 1..Len(legs) :
         IsWalk(legs[k]) =>
           /\ k \in DOMAIN entries /\ k \in DOMAIN labels
           /\ labels[k] = <<WalkToken>>
           /\ \A i \in 1..Len(entries[k]) :
                ~HasRouteParenthetical(entries[k][i])
           /\ ~HasLine(entries[k], LaneRoutePrefix)
           /\ ~HasLine(entries[k], LaneTypePrefix)
           /\ ~HasLine(entries[k], ServicePrefix)
           /\ ~HasLine(entries[k], PassedPrefix)

C7_Witness ==
  /\ IsReport
  /\ \E k \in 1..Len(InLegs) :
       /\ IsWalk(InLegs[k])
       /\ InLegs[k].route = Str("146")
       /\ InLegs[k].Lane = Arr(<<LaneObj(Str("146"), Num(11), Num(1))>>)
       /\ InLegs[k].passStopList # Undef
       /\ Labels[k] = <<WalkToken>>

\* the leg is a transit leg that carries a lane
HasLane(leg) ==
  ~IsWalk(leg) /\ leg.Lane \notin {Undef, Arr(<<>>)}

\* C8: for a transit leg whose Lane is present, service = 1 gives a status
\* line with the 'operating' literal, service = 0 one with the 'ended'
\* literal, and an absent service gives no status line.
C8_ServiceStatus ==
  IsReport =>
    LET legs == InLegs
        entries == Entries
    IN \A k \in 1..Len(legs) :
         HasLane(legs[k]) =>
           /\ k \in DOMAIN entries
           /\ LET service == legs[k].Lane.a[1].service
                  entry == entries[k]
                  statusLines ==
                    {i \in 1..Len(entry) : entry[i][1] = ServicePrefix}
              IN /\ service = Num(1) =>
                      /\ Cardinality(statusLines) = 1
                      /\ \A i \in statusLines :
                           entry[i] = <<ServicePrefix, Operating>>
                 /\ service = Num(0) =>
                      /\ Cardinality(statusLines) = 1
                      /\ \A i \in statusLines :
                           entry[i] = <<ServicePrefix, Ended>>
                 /\ service = Undef => statusLines = {}

C8_Witness ==
  /\ IsReport
  /\ Len(InLegs) = 2
  /\ HasLane(InLegs[1]) /\ InLegs[1].Lane.a[1].service = Num(0)
  /\ HasLine(Entries[1], ServicePrefix)
  /\ HasLane(InLegs[2]) /\ InLegs[2].Lane.a[1].service = Num(1)
  /\ HasLine(Entries[2], ServicePrefix)

IsName(station) == station.stationName \notin {Undef, Null, Str("")}

\* the passed-station names of a leg, in source order
InStationNames(leg) ==
  IF \/ Nullish(leg.passStopList)
     \/ Nullish(leg.passStopList.stationList)
  THEN <<>>
  ELSE LET named == SelectSeq(leg.passStopList.stationList.a, IsName)
       IN [i \in 1..Len(named) |-> named[i].stationName.s]

\* C9: the entry of a transit leg holds the passed-stations line exactly
\* when the leg has at least one passed-station name; the line lists the
\* names in source order joined by the arrow.
C9_PassedStations ==
  IsReport =>
    LET legs == InLegs
        entries == Entries
    IN \A k \in 1..Len(legs) :
         ~IsWalk(legs[k]) =>
           /\ k \in DOMAIN entries
           /\ LET names == InStationNames(legs[k])
                  entry == entries[k]
                  passedLines ==
                    {i \in 1..Len(entry) : entry[i][1] = PassedPrefix}
              IN /\ names = <<>> => passedLines = {}
                 /\ names # <<>> =>
                      /\ Cardinality(passedLines) = 1
                      /\ \A i \in passedLines :
                           /\ Len(entry[i]) = 2 * Len(names)
                           /\ \A j \in 1..Len(names) :
                                entry[i][2 * j] = names[j]
                           /\ \A j \in 1..(Len(names) - 1) :
                                entry[i][2 * j + 1] = Arrow

C9_Witness ==
  /\ IsReport
  /\ \E k \in 1..Len(InLegs) :
       /\ ~IsWalk(InLegs[k])
       /\ InLegs[k].passStopList =
            PassStopList(Arr(<<Station(Str("")), Station(Str("C2"))>>))
       /\ HasLine(Entries[k], PassedPrefix)

\* the summary label the claim gives a leg: nothing when the mode it falls
\* back to is absent
ExpectedLabel(leg) ==
  IF leg.mode = Str("WALK") THEN <<WalkToken>>
  ELSE IF leg.route \notin {Undef, Str("")} THEN <<leg.route.s>>
  ELSE IF leg.mode = Undef THEN <<>>
  ELSE <<leg.mode.s>>

\* C10: for the n >= 1 legs of the first itinerary, the summary line holds n
\* labels and the detail block n entries in travel order; label k is the
\* walk token, else the route, else the mode of leg k, and entry k starts
\* with the marker '[k] ' and describes leg k.
C10_OnePerLegInOrder ==
  (IsReport /\ Len(InLegs) >= 1) =>
    LET legs == InLegs
        entries == Entries
        labels == Labels
    IN /\ Len(labels) = Len(legs)
       /\ Len(entries) = Len(legs)
       /\ \A k \in 1..Len(legs) :
            LET head == entries[k][1]
            IN /\ labels[k] = ExpectedLabel(legs[k])
               /\ head[1] = "[" \o ToString(k) \o "] "
               /\ IsWalk(legs[k]) => head[2] = WalkToken
               /\ (~IsWalk(legs[k]) /\ legs[k].mode # Undef) =>
                    head[2] = legs[k].mode.s
               /\ legs[k].distance # Undef =>
                    \E i \in 1..Len(head) :
                      head[i] = ToString(legs[k].distance.n)

C10_Witness ==
  /\ IsReport
  /\ Len(response.data.metaData.plan.itineraries.a) = 2
  /\ InLegs = <<WalkLeg, BusLeg>>
  /\ Labels = <<<<WalkToken>>, <<"146">>>>
  /\ Len(Entries) = 2

====
